---- MODULE Spec2Model ----
(***************************************************************************)
(* A model of four pieces of the authelia server:                          *)
(*   - validator.ValidatePasswordPolicy  (configuration validation)        *)
(*   - server.handlerError / getRemoteIP (fasthttp error handler)          *)
(*   - server.getHandler                (route table and request dispatch) *)
(*   - handlers.OAuthRevocationPOST     (OAuth 2.0 token revocation)       *)
(* Each piece has its own specification (SpecPolicy, SpecError, Spec,      *)
(* SpecRevocation); the variables of the other pieces stay at their        *)
(* initial values.                                                         *)
(***************************************************************************)
EXTENDS Integers, Sequences, FiniteSets, TLC

VARIABLES
    \* --- validator.ValidatePasswordPolicy ---
    have,        \* the *schema.PasswordPolicyConfiguration as passed in
    pconfig,     \* the same configuration object, as the validator leaves it
    validator,   \* the *schema.StructValidator: [errors, warnings]
    validated,   \* TRUE once ValidatePasswordPolicy has returned
    \* --- server.handlerError ---
    ectx,        \* the *fasthttp.RequestCtx handed to the error handler
    err,         \* the transport error handed to the error handler
    eresp,       \* the response written by ctx.Error
    logged,      \* the Tracef lines: request, client address and response code
    \* --- server.getHandler ---
    config,      \* schema.Configuration + providers, fixed at construction
    ctx,         \* the request being served
    response,    \* what the handler chain did with it
    \* --- handlers.OAuthRevocationPOST ---
    rev          \* the running OAuthRevocationPOST call: its position, its
                 \* local err, and what it has logged and written so far

vars == <<have, pconfig, validator, validated, ectx, err, eresp, logged,
          config, ctx, response, rev>>

policyVars == <<have, pconfig, validator, validated>>
errorVars == <<ectx, err, eresp, logged>>
serverVars == <<config, ctx, response>>

(***************************************************************************)
(* validator.ValidatePasswordPolicy                                        *)
(***************************************************************************)

\* Bounds of the password policy inputs: MinLength ranges over
\* -MaxLen..MaxLen, MaxLength over 0..MaxMaxLength.
MaxLen == 9
MaxMaxLength == 2

\* schema.DefaultPasswordPolicyConfiguration.Standard, as the tests pin it:
\* a MinLength of 0 becomes 8, a MaxLength of 0 stays 0.
DefaultPasswordPolicyConfiguration ==
    [Standard |-> [MinLength |-> 8, MaxLength |-> 0]]

errPasswordPolicyMultipleDefined ==
    "password_policy: only a single password policy mechanism can be specified"

errFmtPasswordPolicyMinLengthNotGreaterThanZero ==
    "password_policy: standard: option 'min_length' must be greater than 0 but is configured as %d"

\* fmt.Errorf(format, args...): an error is its format followed by its arguments.
Errorf(format, args) == <<format>> \o args

\* The number of elements of vals equal to v.
RECURSIVE BoolCount(_, _)
BoolCount(v, vals) ==
    IF vals = <<>> THEN 0
    ELSE (IF Head(vals) = v THEN 1 ELSE 0) + BoolCount(v, Tail(vals))

\* utils.IsBoolCountLessThanN(n, v, vals...): false as soon as more than n of
\* vals equal v.
IsBoolCountLessThanN(n, v, vals) == ~(BoolCount(v, vals) > n)

\* validator.Push(err)
Push(val, e) == [val EXCEPT !.errors = Append(@, e)]

PasswordPolicyConfigurations ==
    [Standard : [Enabled : BOOLEAN,
                 MinLength : (0 - MaxLen)..MaxLen,
                 MaxLength : 0..MaxMaxLength,
                 RequireUppercase : BOOLEAN,
                 RequireLowercase : BOOLEAN,
                 RequireNumber : BOOLEAN,
                 RequireSpecial : BOOLEAN],
     ZXCVBN : [Enabled : BOOLEAN]]

\* CheckMultiple with the count read as "fewer than one": one mechanism is
\* already too many.
CheckMultipleAny(c, val) ==
    IF c.Standard.Enabled \/ c.ZXCVBN.Enabled
    THEN Push(val, Errorf(errPasswordPolicyMultipleDefined, <<>>))
    ELSE val

\* The validator after the first check of ValidatePasswordPolicy.
CheckMultiple(c, val) ==
    IF ~IsBoolCountLessThanN(1, TRUE, <<c.Standard.Enabled, c.ZXCVBN.Enabled>>)
    THEN Push(val, Errorf(errPasswordPolicyMultipleDefined, <<>>))
    ELSE val

\* CheckMinLength with the zero test dropped: 0 is reported like a negative.
CheckMinLengthNonPositive(c, val) ==
    IF c.Standard.Enabled /\ c.Standard.MinLength <= 0
    THEN Push(val, Errorf(errFmtPasswordPolicyMinLengthNotGreaterThanZero,
                          <<c.Standard.MinLength>>))
    ELSE val

\* The validator after the min_length check.
CheckMinLength(c, val) ==
    IF c.Standard.Enabled /\ c.Standard.MinLength # 0 /\ c.Standard.MinLength < 0
    THEN Push(val, Errorf(errFmtPasswordPolicyMinLengthNotGreaterThanZero,
                          <<c.Standard.MinLength>>))
    ELSE val

\* SetDefaults with the default minimum written over every MinLength <= 0.
SetDefaultsNonPositive(c) ==
    IF c.Standard.Enabled
    THEN [c EXCEPT
            !.Standard.MinLength =
                IF @ <= 0 THEN DefaultPasswordPolicyConfiguration.Standard.MinLength ELSE @,
            !.Standard.MaxLength =
                IF @ = 0 THEN DefaultPasswordPolicyConfiguration.Standard.MaxLength ELSE @]
    ELSE c

\* SetDefaults without the test of Standard.Enabled.
SetDefaultsAlways(c) ==
    [c EXCEPT
        !.Standard.MinLength =
            IF @ = 0 THEN DefaultPasswordPolicyConfiguration.Standard.MinLength ELSE @,
        !.Standard.MaxLength =
            IF @ = 0 THEN DefaultPasswordPolicyConfiguration.Standard.MaxLength ELSE @]

\* The configuration after the defaults have been written into it.
SetDefaults(c) ==
    IF c.Standard.Enabled
    THEN [c EXCEPT
            !.Standard.MinLength =
                IF @ = 0 THEN DefaultPasswordPolicyConfiguration.Standard.MinLength ELSE @,
            !.Standard.MaxLength =
                IF @ = 0 THEN DefaultPasswordPolicyConfiguration.Standard.MaxLength ELSE @]
    ELSE c

\* ValidatePasswordPolicy(config, validator)
ValidatePasswordPolicy ==
    /\ ~validated
    /\ validator' = CheckMinLength(pconfig, CheckMultiple(pconfig, validator))
    /\ pconfig' = SetDefaults(pconfig)
    /\ validated' = TRUE
    /\ UNCHANGED <<have, errorVars, serverVars, rev>>

(***************************************************************************)
(* server.handlerError                                                     *)
(***************************************************************************)

\* Bound: the longest X-Forwarded-For header value, in characters.
MaxHdrLen == 3

\* The number of trailing X-Forwarded-For entries appended by trusted proxies;
\* the entries before them are supplied by the client.
TrustedHops == 1

StatusBadRequest == 400
StatusRequestTimeout == 408
StatusRequestHeaderFieldsTooLarge == 431

\* Strings are sequences of characters, so that Split and Trim work on them.
Chars == {"a", "b", ",", " "}
HeaderValues == UNION {[1..n -> Chars] : n \in 1..MaxHdrLen}

\* The X-Forwarded-For header of a request: absent (PeekBytes returns nil), or
\* present with a non-empty value.
XForwardedFor ==
    {[present |-> FALSE, value |-> <<>>]}
        \cup [present : {TRUE}, value : HeaderValues]

\* ctx.RemoteIP(): the address of the connection peer.
RemoteIPs == {<<"a">>, <<"b">>}

\* The errors fasthttp hands to the error handler. timeout is the result of
\* Timeout() for the errors that have one (net.OpError, and other net.Error
\* implementations, which fall under "other").
Errors ==
    {[type |-> "*fasthttp.ErrSmallBuffer", timeout |-> FALSE]}
        \cup [type : {"*net.OpError", "other"}, timeout : BOOLEAN]

\* strings.Split(s, sep) for a one-character separator: the pieces of s
\* between the separators, always at least one piece.
RECURSIVE SplitFrom(_, _, _, _)
SplitFrom(s, sep, i, cur) ==
    IF i > Len(s) THEN <<cur>>
    ELSE IF s[i] = sep THEN <<cur>> \o SplitFrom(s, sep, i + 1, <<>>)
    ELSE SplitFrom(s, sep, i + 1, Append(cur, s[i]))

Split(s, sep) == SplitFrom(s, sep, 1, <<>>)

\* strings.Trim(s, cutset) for a one-character cutset.
RECURSIVE TrimLeft(_, _)
TrimLeft(s, c) ==
    IF s # <<>> /\ Head(s) = c THEN TrimLeft(Tail(s), c) ELSE s

RECURSIVE TrimRight(_, _)
TrimRight(s, c) ==
    IF s # <<>> /\ s[Len(s)] = c THEN TrimRight(SubSeq(s, 1, Len(s) - 1), c) ELSE s

Trim(s, c) == TrimRight(TrimLeft(s, c), c)

\* getRemoteIP(ctx): the first X-Forwarded-For entry when the header is
\* there, the connection peer otherwise.
getRemoteIP(c) ==
    IF c.xff.present
    THEN LET ips == Split(c.xff.value, ",")
         IN IF Len(ips) > 0 THEN Trim(ips[1], " ") ELSE c.remote
    ELSE c.remote

\* ErrorReply without the test of Timeout(): every net.OpError is a timeout.
ErrorReplyNoTimeoutCheck(e) ==
    CASE e.type = "*fasthttp.ErrSmallBuffer" ->
            [body |-> "request header too large",
             status |-> StatusRequestHeaderFieldsTooLarge]
      [] e.type = "*net.OpError" ->
            [body |-> "request timeout", status |-> StatusRequestTimeout]
      [] OTHER ->
            [body |-> "error when parsing request", status |-> StatusBadRequest]

\* The switch of the error handler: the message and status given to ctx.Error.
ErrorReply(e) ==
    CASE e.type = "*fasthttp.ErrSmallBuffer" ->
            [body |-> "request header too large",
             status |-> StatusRequestHeaderFieldsTooLarge]
      [] e.type = "*net.OpError" ->
            IF e.timeout
            THEN [body |-> "request timeout", status |-> StatusRequestTimeout]
            ELSE [body |-> "error when parsing request", status |-> StatusBadRequest]
      [] OTHER ->
            [body |-> "error when parsing request", status |-> StatusBadRequest]

NoErrorContext ==
    [state |-> "idle", remote |-> <<>>, xff |-> [present |-> FALSE, value |-> <<>>]]
NoError == [type |-> "none", timeout |-> FALSE]
NoErrorResponse == [writes |-> 0, status |-> 0, body |-> ""]
NoLog == <<>>

\* The last n entries of an X-Forwarded-For value, trimmed: the entries the
\* trusted proxies appended.
TrustedEntries(value) ==
    LET ips == Split(value, ",")
    IN [i \in 1..TrustedHops |-> Trim(ips[Len(ips) - TrustedHops + i], " ")]

\* Two X-Forwarded-For headers that differ at most in their client-supplied
\* entries: the entries appended by the trusted proxies are the same (and
\* are addresses, so not empty).
SameTrustedEntries(x1, x2) ==
    /\ x1.present /\ x2.present
    /\ Len(Split(x1.value, ",")) >= TrustedHops
    /\ Len(Split(x2.value, ",")) >= TrustedHops
    /\ TrustedEntries(x1.value) = TrustedEntries(x2.value)
    /\ \A i \in 1..TrustedHops : TrustedEntries(x1.value)[i] # <<>>

\* The server fails to read a request from a connection and is about to call
\* its ErrorHandler with the request context and the error.
ReadError(remote, xff, e) ==
    /\ ectx.state = "idle"
    /\ ectx' = [state |-> "error", remote |-> remote, xff |-> xff]
    /\ err' = e
    /\ eresp' = NoErrorResponse
    /\ logged' = NoLog
    /\ UNCHANGED <<policyVars, serverVars, rev>>

\* The same client sends once more through the same proxies, with other
\* entries of its own in X-Forwarded-For, and the read fails the same way.
ReadErrorAgain(xff) ==
    /\ ectx.state = "responded"
    /\ Len(logged) = 1
    /\ xff # ectx.xff
    /\ SameTrustedEntries(ectx.xff, xff)
    /\ ectx' = [state |-> "error", remote |-> ectx.remote, xff |-> xff]
    /\ eresp' = NoErrorResponse
    /\ UNCHANGED <<err, logged, policyVars, serverVars, rev>>

\* The function returned by handlerError().
handlerError ==
    /\ ectx.state = "error"
    /\ LET reply == ErrorReply(err)
       IN /\ logged' = Append(logged, [remote |-> ectx.remote,
                                       xff |-> ectx.xff,
                                       client |-> getRemoteIP(ectx),
                                       code |-> reply.status])
          /\ eresp' = [writes |-> eresp.writes + 1,
                       status |-> reply.status,
                       body |-> reply.body]
    /\ ectx' = [ectx EXCEPT !.state = "responded"]
    /\ UNCHANGED <<err, policyVars, serverVars, rev>>

\* The connection is closed after the error response; the model starts a
\* new log.
CloseConnection ==
    /\ ectx.state = "responded"
    /\ ectx' = NoErrorContext
    /\ err' = NoError
    /\ eresp' = NoErrorResponse
    /\ logged' = NoLog
    /\ UNCHANGED <<policyVars, serverVars, rev>>

(***************************************************************************)
(* server.getHandler: the route table                                      *)
(*                                                                         *)
(* A path is the sequence of its segments: "/" is <<>>, "/api/health" is   *)
(* <<"api", "health">>, and a trailing slash is an empty last segment      *)
(* ("/api/" is <<"api", "">>).  A route is                                 *)
(*   [method, path, mw, handler]                                           *)
(* where mw lists the wrappers around the handler, outermost first.        *)
(***************************************************************************)

StatusNotFound == 404
StatusMethodNotAllowed == 405

\* authentication levels of a session (factor_level): None, First, Second.
NotAuthenticated == 0
OneFactor == 1
TwoFactor == 2

Route(method, path, mw, handler) ==
    [method |-> method, path |-> path, mw |-> mw, handler |-> handler]

\* A handler value: the function, and the argument it was built with.
H(name) == [name |-> name, arg |-> ""]
HA(name, arg) == [name |-> name, arg |-> arg]

\* middleware := middlewares.AutheliaMiddleware(config, providers)
MW == <<"middleware">>
MW1FA == <<"middleware", "Require1FA">>
AssetOverride == <<"AssetOverrideMiddleware">>

\* delayFunc := middlewares.TimingAttackDelay(10, 250, 85, time.Second)
delayFunc == "middlewares.TimingAttackDelay(10, 250, 85, time.Second)"

\* Package-level names of the server and oidc packages used by getHandler.
rootFiles == {"manifest.json", "robots.txt"}
swaggerFiles == {"swagger-ui.css", "swagger-ui-bundle.js"}
apiFile == "openapi.yml"
httpServerDirs == {"api", ".well-known", "static", "locales"}
WellKnownOpenIDConfigurationPath == <<".well-known", "openid-configuration">>
WellKnownOAuthAuthorizationServerPath == <<".well-known", "oauth-authorization-server">>
JWKsPath == <<"jwks.json">>
AuthorizationPath == <<"api", "oidc", "authorization">>
TokenPath == <<"api", "oidc", "token">>
UserinfoPath == <<"api", "oidc", "userinfo">>
IntrospectionPath == <<"api", "oidc", "introspection">>
RevocationPath == <<"api", "oidc", "revocation">>

\* Static assets, locales and swagger.
StaticRoutes ==
    {Route("GET", <<>>, MW, H("serveIndexHandler"))}
    \cup {Route("GET", <<f>>, <<>>, H("handlerPublicHTML")) : f \in rootFiles}
    \cup {Route("GET", <<"favicon.ico">>, AssetOverride, H("handlerPublicHTML")),
          Route("GET", <<"static", "media", "logo.png">>, AssetOverride, H("handlerPublicHTML")),
          Route("GET", <<"static", "{filepath:*}">>, <<>>, H("handlerPublicHTML")),
          Route("GET", <<"locales", "{language}-{variant}", "{namespace}.json">>,
                AssetOverride, H("handlerLocales")),
          Route("GET", <<"locales", "{language}", "{namespace}.json">>,
                AssetOverride, H("handlerLocales")),
          Route("GET", <<"api", "">>, MW, H("serveSwaggerHandler")),
          Route("OPTIONS", <<"api", "">>, <<>>, H("policyCORSPublicGET.HandleOPTIONS")),
          Route("GET", <<"api", apiFile>>, <<"policyCORSPublicGET.Middleware", "middleware">>,
                H("serveSwaggerAPIHandler")),
          Route("OPTIONS", <<"api", apiFile>>, <<>>, H("policyCORSPublicGET.HandleOPTIONS"))}
    \cup {Route("GET", <<"api", f>>, <<>>, H("handlerPublicHTML")) : f \in swaggerFiles}

\* Health, state, configuration, verification.
APIRoutes(c) ==
    {Route("GET", <<"api", "health">>, MW, H("HealthGET")),
     Route("GET", <<"api", "state">>, MW, H("StateGET")),
     Route("GET", <<"api", "configuration">>, MW1FA, H("ConfigurationGET")),
     Route("GET", <<"api", "configuration", "password-policy">>, MW,
           H("PasswordPolicyConfigurationGet")),
     Route("GET", <<"api", "verify">>, MW, HA("VerifyGET", "config.AuthenticationBackend")),
     Route("HEAD", <<"api", "verify">>, MW, HA("VerifyGET", "config.AuthenticationBackend")),
     Route("POST", <<"api", "checks", "safe-redirection">>, MW, H("CheckSafeRedirectionPOST"))}

\* FirstFactorRoutes with the first-factor handler built without a delay function.
FirstFactorRoutesNoDelay(c) ==
    {Route("POST", <<"api", "firstfactor">>, MW, HA("FirstFactorPOST", "nil")),
     Route("POST", <<"api", "logout">>, MW, H("LogoutPOST"))}

\* First factor and logout.
FirstFactorRoutes(c) ==
    {Route("POST", <<"api", "firstfactor">>, MW, HA("FirstFactorPOST", delayFunc)),
     Route("POST", <<"api", "logout">>, MW, H("LogoutPOST"))}

\* Only register endpoints if forgot password is not disabled.
ResetPasswordRoutes(c) ==
    IF ~c.AuthenticationBackend.DisableResetPassword
        /\ c.AuthenticationBackend.PasswordReset.CustomURL = ""
    THEN {Route("POST", <<"api", "reset-password", "identity", "start">>, MW,
                H("ResetPasswordIdentityStart")),
          Route("POST", <<"api", "reset-password", "identity", "finish">>, MW,
                H("ResetPasswordIdentityFinish")),
          Route("POST", <<"api", "reset-password">>, MW, H("ResetPasswordPOST"))}
    ELSE {}

\* Information about the user.
UserInfoRoutes(c) ==
    {Route("GET", <<"api", "user", "info">>, MW1FA, H("UserInfoGET")),
     Route("POST", <<"api", "user", "info">>, MW1FA, H("UserInfoPOST")),
     Route("POST", <<"api", "user", "info", "2fa_method">>, MW1FA, H("MethodPreferencePOST"))}

\* TOTPRoutes registered whatever config.TOTP.Disable says.
TOTPRoutesAlways(c) ==
    {Route("GET", <<"api", "user", "info", "totp">>, MW1FA, H("UserTOTPInfoGET")),
     Route("POST", <<"api", "secondfactor", "totp", "identity", "start">>, MW1FA,
           H("TOTPIdentityStart")),
     Route("POST", <<"api", "secondfactor", "totp", "identity", "finish">>, MW1FA,
           H("TOTPIdentityFinish")),
     Route("POST", <<"api", "secondfactor", "totp">>, MW1FA,
           H("TimeBasedOneTimePasswordPOST"))}

\* TOTP related endpoints.
TOTPRoutes(c) ==
    IF ~c.TOTP.Disable
    THEN {Route("GET", <<"api", "user", "info", "totp">>, MW1FA, H("UserTOTPInfoGET")),
          Route("POST", <<"api", "secondfactor", "totp", "identity", "start">>, MW1FA,
                H("TOTPIdentityStart")),
          Route("POST", <<"api", "secondfactor", "totp", "identity", "finish">>, MW1FA,
                H("TOTPIdentityFinish")),
          Route("POST", <<"api", "secondfactor", "totp">>, MW1FA,
                H("TimeBasedOneTimePasswordPOST"))}
    ELSE {}

\* WebauthnRoutes with the assertion challenge left outside Require1FA.
WebauthnRoutesUnguarded(c) ==
    IF ~c.Webauthn.Disable
    THEN {Route("POST", <<"api", "secondfactor", "webauthn", "identity", "start">>, MW1FA,
                H("WebauthnIdentityStart")),
          Route("POST", <<"api", "secondfactor", "webauthn", "identity", "finish">>, MW1FA,
                H("WebauthnIdentityFinish")),
          Route("POST", <<"api", "secondfactor", "webauthn", "attestation">>, MW1FA,
                H("WebauthnAttestationPOST")),
          Route("GET", <<"api", "secondfactor", "webauthn", "assertion">>, MW,
                H("WebauthnAssertionGET")),
          Route("POST", <<"api", "secondfactor", "webauthn", "assertion">>, MW1FA,
                H("WebauthnAssertionPOST"))}
    ELSE {}

\* Webauthn endpoints.
WebauthnRoutes(c) ==
    IF ~c.Webauthn.Disable
    THEN {Route("POST", <<"api", "secondfactor", "webauthn", "identity", "start">>, MW1FA,
                H("WebauthnIdentityStart")),
          Route("POST", <<"api", "secondfactor", "webauthn", "identity", "finish">>, MW1FA,
                H("WebauthnIdentityFinish")),
          Route("POST", <<"api", "secondfactor", "webauthn", "attestation">>, MW1FA,
                H("WebauthnAttestationPOST")),
          Route("GET", <<"api", "secondfactor", "webauthn", "assertion">>, MW1FA,
                H("WebauthnAssertionGET")),
          Route("POST", <<"api", "secondfactor", "webauthn", "assertion">>, MW1FA,
                H("WebauthnAssertionPOST"))}
    ELSE {}

\* DuoRoutes registered without a Duo API configuration.
DuoRoutesAlways(c) ==
    {Route("GET", <<"api", "secondfactor", "duo_devices">>, MW1FA,
           HA("DuoDevicesGET", "duoAPI")),
     Route("POST", <<"api", "secondfactor", "duo">>, MW1FA, HA("DuoPOST", "duoAPI")),
     Route("POST", <<"api", "secondfactor", "duo_device">>, MW1FA, H("DuoDevicePOST"))}

\* Configure DUO api endpoint only if configuration exists.
DuoRoutes(c) ==
    IF c.DuoAPI # "nil"
    THEN {Route("GET", <<"api", "secondfactor", "duo_devices">>, MW1FA,
                HA("DuoDevicesGET", "duoAPI")),
          Route("POST", <<"api", "secondfactor", "duo">>, MW1FA, HA("DuoPOST", "duoAPI")),
          Route("POST", <<"api", "secondfactor", "duo_device">>, MW1FA, H("DuoDevicePOST"))}
    ELSE {}

DebugRoutes(c) ==
    (IF c.Server.EnablePprof
     THEN {Route("GET", <<"debug", "pprof", "{name?}">>, <<>>, H("pprofhandler.PprofHandler"))}
     ELSE {})
    \cup
    (IF c.Server.EnableExpvars
     THEN {Route("GET", <<"debug", "vars">>, <<>>, H("expvarhandler.ExpvarHandler"))}
     ELSE {})

OIDCAdaptor(policy) ==
    <<policy, "middleware", "NewHTTPToAutheliaHandlerAdaptor">>

\* The OpenID Connect endpoints, registered when the provider is configured.
OIDCRoutes(c) ==
    IF c.OpenIDConnect # "nil"
    THEN {Route("GET", <<"api", "oidc", "consent">>, MW, H("OpenIDConnectConsentGET")),
          Route("POST", <<"api", "oidc", "consent">>, MW, H("OpenIDConnectConsentPOST")),
          Route("OPTIONS", WellKnownOpenIDConfigurationPath, <<>>,
                H("policyCORSPublicGET.HandleOPTIONS")),
          Route("GET", WellKnownOpenIDConfigurationPath,
                <<"policyCORSPublicGET.Middleware", "middleware">>,
                H("OpenIDConnectConfigurationWellKnownGET")),
          Route("OPTIONS", WellKnownOAuthAuthorizationServerPath, <<>>,
                H("policyCORSPublicGET.HandleOPTIONS")),
          Route("GET", WellKnownOAuthAuthorizationServerPath,
                <<"policyCORSPublicGET.Middleware", "middleware">>,
                H("OAuthAuthorizationServerWellKnownGET")),
          Route("OPTIONS", JWKsPath, <<>>, H("policyCORSPublicGET.HandleOPTIONS")),
          Route("GET", JWKsPath, <<"policyCORSPublicGET.Middleware", "middleware">>,
                H("JSONWebKeySetGET")),
          Route("OPTIONS", <<"api", "oidc", "jwks">>, <<>>,
                H("policyCORSPublicGET.HandleOPTIONS")),
          Route("GET", <<"api", "oidc", "jwks">>,
                <<"policyCORSPublicGET.Middleware", "middleware">>, H("JSONWebKeySetGET")),
          Route("OPTIONS", AuthorizationPath, <<>>,
                H("policyCORSAuthorization.HandleOnlyOPTIONS")),
          Route("GET", AuthorizationPath, <<"middleware", "NewHTTPToAutheliaHandlerAdaptor">>,
                H("OpenIDConnectAuthorizationGET")),
          Route("OPTIONS", <<"api", "oidc", "authorize">>, <<>>,
                H("policyCORSAuthorization.HandleOnlyOPTIONS")),
          Route("GET", <<"api", "oidc", "authorize">>,
                <<"middleware", "NewHTTPToAutheliaHandlerAdaptor">>,
                H("OpenIDConnectAuthorizationGET")),
          Route("OPTIONS", TokenPath, <<>>, H("policyCORSToken.HandleOPTIONS")),
          Route("POST", TokenPath, OIDCAdaptor("policyCORSToken.Middleware"),
                H("OpenIDConnectTokenPOST")),
          Route("OPTIONS", UserinfoPath, <<>>, H("policyCORSUserinfo.HandleOPTIONS")),
          Route("GET", UserinfoPath, OIDCAdaptor("policyCORSUserinfo.Middleware"),
                H("OpenIDConnectUserinfo")),
          Route("POST", UserinfoPath, OIDCAdaptor("policyCORSUserinfo.Middleware"),
                H("OpenIDConnectUserinfo")),
          Route("OPTIONS", IntrospectionPath, <<>>,
                H("policyCORSIntrospection.HandleOPTIONS")),
          Route("POST", IntrospectionPath, OIDCAdaptor("policyCORSIntrospection.Middleware"),
                H("OAuthIntrospectionPOST")),
          Route("OPTIONS", <<"api", "oidc", "introspect">>, <<>>,
                H("policyCORSIntrospection.HandleOPTIONS")),
          Route("POST", <<"api", "oidc", "introspect">>,
                OIDCAdaptor("policyCORSIntrospection.Middleware"), H("OAuthIntrospectionPOST")),
          Route("OPTIONS", RevocationPath, <<>>, H("policyCORSRevocation.HandleOPTIONS")),
          Route("POST", RevocationPath, OIDCAdaptor("policyCORSRevocation.Middleware"),
                H("OAuthRevocationPOST")),
          Route("OPTIONS", <<"api", "oidc", "revoke">>, <<>>,
                H("policyCORSRevocation.HandleOPTIONS")),
          Route("POST", <<"api", "oidc", "revoke">>,
                OIDCAdaptor("policyCORSRevocation.Middleware"), H("OAuthRevocationPOST"))}
    ELSE {}

\* getHandler(config, providers): the router it builds and the path it strips.
getHandler(c) ==
    [routes |-> StaticRoutes \cup APIRoutes(c) \cup FirstFactorRoutes(c)
                    \cup ResetPasswordRoutes(c) \cup UserInfoRoutes(c)
                    \cup TOTPRoutes(c) \cup WebauthnRoutes(c) \cup DuoRoutes(c)
                    \cup DebugRoutes(c) \cup OIDCRoutes(c),
     NotFound |-> [wrapper |-> "handlerNotFound", mw |-> MW,
                   handler |-> H("serveIndexHandler")],
     HandleMethodNotAllowed |-> TRUE,
     MethodNotAllowed |-> "handlerMethodNotAllowed",
     StripPath |-> c.Server.Path]

\* The configurations getHandler is called with.
Configurations ==
    [TOTP : [Disable : BOOLEAN],
     Webauthn : [Disable : BOOLEAN],
     DuoAPI : {"nil", "configured"},
     AuthenticationBackend :
        [DisableResetPassword : BOOLEAN,
         PasswordReset : [CustomURL : {"", "https://reset.example.com"}]],
     Server : [EnablePprof : BOOLEAN, EnableExpvars : BOOLEAN,
               Path : {<<>>, <<"authelia">>}],
     OpenIDConnect : {"nil", "configured"}]

(***************************************************************************)
(* server.getHandler: serving a request                                    *)
(***************************************************************************)

\* strings.ToLower, segment by segment, on the segments the model uses.
LowerSeg(s) ==
    CASE s = "API" -> "api"
      [] s = "TOTP" -> "totp"
      [] s = "Static" -> "static"
      [] OTHER -> s

ToLower(path) == [i \in 1..Len(path) |-> LowerSeg(path[i])]

\* The parameter segments of the route patterns, and the segments of the
\* model's requests that each accepts.
ParamSegments ==
    {"{filepath:*}", "{language}-{variant}", "{language}", "{namespace}.json", "{name?}"}

SegMatch(p, seg) ==
    CASE p = "{language}-{variant}" -> seg \in {"en-US"}
      [] p = "{language}" -> seg \in {"en"}
      [] p = "{namespace}.json" -> seg \in {"portal.json"}
      [] p = "{name?}" -> TRUE
      [] OTHER -> p = seg

\* Whether a route pattern accepts a path; {filepath:*} takes all that is left.
RECURSIVE Match(_, _)
Match(pattern, path) ==
    IF pattern = <<>> THEN path = <<>>
    ELSE IF Head(pattern) = "{filepath:*}" THEN path # <<>>
    ELSE /\ path # <<>>
         /\ SegMatch(Head(pattern), Head(path))
         /\ Match(Tail(pattern), Tail(path))

IsStatic(rt) == \A i \in 1..Len(rt.path) : rt.path[i] \notin ParamSegments

NoRoute == Route("", <<>>, <<>>, H(""))
NoHandler == H("")

\* tree.Get(path): the route of the method's tree that accepts the path, a
\* static route before a parameterised one.
Lookup(routes, method, path) ==
    LET hits == {rt \in routes : rt.method = method /\ Match(rt.path, path)}
        static == {rt \in hits : IsStatic(rt)}
    IN IF static # {} THEN CHOOSE rt \in static : TRUE
       ELSE IF hits # {} THEN CHOOSE rt \in hits : TRUE
       ELSE NoRoute

\* The path with its trailing slash added or removed.
ToggleSlash(path) ==
    IF path # <<>> /\ path[Len(path)] = ""
    THEN SubSeq(path, 1, Len(path) - 1)
    ELSE Append(path, "")

\* tryRedirect: the router's RedirectTrailingSlash and RedirectFixedPath, both
\* on after router.New(): a route of the same method accepts the path once
\* its trailing slash or its case is fixed.
CanRedirect(routes, method, path) ==
    /\ method # "CONNECT"
    /\ path # <<>>
    /\ \/ Lookup(routes, method, ToggleSlash(path)) # NoRoute
       \/ \E rt \in routes :
            /\ rt.method = method
            /\ \/ Match(ToLower(rt.path), ToLower(path))
               \/ Match(ToLower(rt.path), ToLower(ToggleSlash(path)))

\* r.allowed(path, reqMethod): the other methods that have a route for the path.
Allowed(routes, path, reqMethod) ==
    {rt.method : rt \in {x \in routes : x.method # reqMethod
                                          /\ x.method # "OPTIONS"
                                          /\ Match(x.path, path)}}

\* What became of a request: by is the function that wrote the response or
\* ran last, invoked the route handler that ran (if one did), via the
\* router's choice (set by RouterHandler).
Reply(by, status, invoked, route, error) ==
    [via |-> "", by |-> by, status |-> status, invoked |-> invoked, route |-> route,
     error |-> error]

Via(choice, reply) == [reply EXCEPT !.via = choice]

NoResponse == Reply("", 0, NoHandler, NoRoute, "")

\* The wrappers of a route run outermost first. Require1FA lets a request
\* through only when its session holds a first factor; the others pass the
\* request on.
RECURSIVE RunChain(_, _, _, _)
RunChain(mw, handler, rt, c) ==
    IF mw = <<>> THEN Reply("handler", 0, handler, rt, "")
    ELSE IF Head(mw) = "Require1FA" /\ c.level < OneFactor
         THEN Reply("Require1FA", 0, NoHandler, rt, "Unauthenticated")
         ELSE RunChain(Tail(mw), handler, rt, c)

\* handlerNotFound(next): 404 under the server's directories, next otherwise.
handlerNotFound(nf, path, c) ==
    LET lower == ToLower(path)
    IN IF lower # <<>> /\ lower[1] \in httpServerDirs
       THEN Reply("handlerNotFound", StatusNotFound, NoHandler, NoRoute, "")
       ELSE RunChain(nf.mw, nf.handler, NoRoute, c)

\* handlerMethodNotAllowed(ctx)
handlerMethodNotAllowed ==
    Reply("handlerMethodNotAllowed", StatusMethodNotAllowed, NoHandler, NoRoute, "")

\* r.Handler: the router's dispatch of one request.
RouterHandler(rtr, method, path, c) ==
    LET rt == Lookup(rtr.routes, method, path)
        tree == \E x \in rtr.routes : x.method = method
    IN IF rt # NoRoute THEN Via("route", RunChain(rt.mw, rt.handler, rt, c))
       ELSE IF tree /\ CanRedirect(rtr.routes, method, path)
       THEN Via("redirect", Reply("tryRedirect", 0, NoHandler, NoRoute, ""))
       ELSE IF method = "OPTIONS" /\ Allowed(rtr.routes, path, method) # {}
       THEN Via("HandleOPTIONS", Reply("HandleOPTIONS", 0, NoHandler, NoRoute, ""))
       ELSE IF method # "OPTIONS" /\ rtr.HandleMethodNotAllowed
               /\ Allowed(rtr.routes, path, method) # {}
       THEN Via("MethodNotAllowed", handlerMethodNotAllowed)
       ELSE Via("NotFound", handlerNotFound(rtr.NotFound, path, c))

HasPrefix(path, prefix) ==
    Len(path) >= Len(prefix) /\ SubSeq(path, 1, Len(prefix)) = prefix

\* middlewares.StripPathMiddleware(config.Server.Path, handler), installed
\* only when config.Server.Path is set.
StripPath(prefix, path) ==
    IF prefix # <<>> /\ HasPrefix(path, prefix)
    THEN SubSeq(path, Len(prefix) + 1, Len(path))
    ELSE path

Methods == {"GET", "POST", "HEAD", "OPTIONS"}
Levels == {NotAuthenticated, OneFactor, TwoFactor}

\* The paths of the requests the model sends: every path a route is
\* registered for in some configuration, and paths no route is registered for.
RequestPaths ==
    {<<>>, <<"robots.txt">>, <<"static", "media", "logo.png">>, <<"static", "js", "main.js">>,
     <<"Static", "js", "main.js">>, <<"static">>,
     <<"locales", "en", "portal.json">>, <<"locales", "en-US", "portal.json">>,
     <<"api", "">>, <<"api">>, <<"api", "health">>, <<"api", "configuration">>,
     <<"api", "verify">>, <<"api", "firstfactor">>, <<"api", "firstfactor", "">>,
     <<"API", "firstfactor">>, <<"api", "logout">>,
     <<"api", "reset-password">>, <<"api", "reset-password", "identity", "start">>,
     <<"api", "user", "info">>, <<"api", "user", "info", "totp">>,
     <<"api", "secondfactor", "totp", "identity", "start">>,
     <<"api", "secondfactor", "totp", "identity", "finish">>,
     <<"api", "secondfactor", "totp">>, <<"api", "secondfactor", "totp", "">>,
     <<"API", "secondfactor", "TOTP">>,
     <<"api", "secondfactor", "webauthn", "identity", "start">>,
     <<"api", "secondfactor", "webauthn", "identity", "finish">>,
     <<"api", "secondfactor", "webauthn", "attestation">>,
     <<"api", "secondfactor", "webauthn", "assertion">>,
     <<"api", "secondfactor", "duo_devices">>, <<"api", "secondfactor", "duo">>,
     <<"api", "secondfactor", "duo_device">>,
     <<"api", "secondfactor">>, <<"api", "nothing">>,
     <<"debug", "pprof", "heap">>, <<"debug", "vars">>,
     <<"api", "oidc", "consent">>, RevocationPath, <<"api", "oidc", "revoke">>,
     WellKnownOpenIDConfigurationPath, <<"settings">>,
     <<"authelia", "api", "firstfactor">>,
     <<"authelia", "api", "secondfactor", "totp", "identity", "start">>,
     <<"authelia", "api", "secondfactor", "duo">>}

\* r := router.New() with every route of the configuration registered: the
\* router is built once, from the configuration, and never changes.
r == getHandler(config)

Idle == [state |-> "idle", method |-> "", path |-> <<>>, level |-> NotAuthenticated]

\* The server reads a request; level is the authentication level of the
\* session the request carries.
Accept(method, path, level) ==
    /\ ctx.state = "idle"
    /\ ctx' = [state |-> "request", method |-> method, path |-> path, level |-> level]
    /\ response' = NoResponse
    /\ UNCHANGED <<config, policyVars, errorVars, rev>>

\* The handler returned by getHandler serves the request:
\* LogRequestMiddleware, StripPathMiddleware, then the router.
Handler ==
    /\ ctx.state = "request"
    /\ response' = RouterHandler(r, ctx.method, StripPath(r.StripPath, ctx.path), ctx)
    /\ ctx' = [ctx EXCEPT !.state = "served"]
    /\ UNCHANGED <<config, policyVars, errorVars, rev>>

\* The response is sent and the request context released.
Release ==
    /\ ctx.state = "served"
    /\ ctx' = Idle
    /\ response' = NoResponse
    /\ UNCHANGED <<config, policyVars, errorVars, rev>>

(***************************************************************************)
(* handlers.OAuthRevocationPOST                                            *)
(***************************************************************************)

\* An error value is nil or an error; rfc tells whether the error already is
\* a *fosite.RFC6749Error.
Nil == [name |-> "nil", description |-> "", rfc |-> FALSE]

\* What Fosite.NewRevocationRequest(ctx, req) may return: nil when the token
\* was revoked, an RFC 6749 error for a bad request or client, or an error
\* of the storage that is no RFC 6749 error.
RevocationErrors ==
    {Nil,
     [name |-> "invalid_request",
      description |-> "The request is missing a required parameter", rfc |-> TRUE],
     [name |-> "invalid_client",
      description |-> "Client authentication failed", rfc |-> TRUE],
     [name |-> "server_error",
      description |-> "The authorization server encountered an unexpected condition",
      rfc |-> TRUE],
     [name |-> "connection refused", description |-> "", rfc |-> FALSE]}

\* fosite.ErrorToRFC6749Error(err): an RFC 6749 error is returned as it is,
\* any other error becomes the unrecognizable error.
ErrorToRFC6749Error(e) ==
    IF e.rfc THEN e
    ELSE [name |-> "error", description |-> "The error is unrecognizable", rfc |-> TRUE]

\* rfc.GetDescription()
GetDescription(rfc) == rfc.description

\* The paths OAuthRevocationPOST is registered on.
RevocationRequestPaths == {RevocationPath, <<"api", "oidc", "revoke">>}

\* No call of OAuthRevocationPOST is running: var err error.
NoRevocation ==
    [pc |-> "entry", err |-> Nil, validated |-> FALSE, returned |-> Nil,
     logs |-> <<>>, written |-> <<>>]

\* The router has handed the request to OAuthRevocationPOST.
RevocationDispatched ==
    /\ ctx.state = "served"
    /\ response.invoked = H("OAuthRevocationPOST")

\* err = ctx.Providers.OpenIDConnect.Fosite.NewRevocationRequest(ctx, req);
\* returned keeps what the call returned, err is the handler's variable.
NewRevocationRequest(e) ==
    /\ RevocationDispatched
    /\ rev.pc = "entry"
    /\ rev' = [rev EXCEPT !.err = e, !.returned = e, !.validated = TRUE,
                          !.pc = IF e # Nil THEN "log" ELSE "write"]
    /\ UNCHANGED <<policyVars, errorVars, serverVars>>

\* The error branch with a return after the log line.
LogRevocationErrorAndReturn ==
    /\ rev.pc = "log"
    /\ rev' = [rev EXCEPT
                 !.logs = Append(@, Errorf("Revocation Request failed with error: %s",
                                           <<GetDescription(ErrorToRFC6749Error(rev.err))>>)),
                 !.pc = "done"]
    /\ UNCHANGED <<policyVars, errorVars, serverVars>>

\* if err != nil: rfc := fosite.ErrorToRFC6749Error(err);
\* ctx.Logger.Errorf("Revocation Request failed with error: %s", ...)
LogRevocationError ==
    /\ rev.pc = "log"
    /\ rev' = [rev EXCEPT
                 !.logs = Append(@, Errorf("Revocation Request failed with error: %s",
                                           <<GetDescription(ErrorToRFC6749Error(rev.err))>>)),
                 !.pc = "write"]
    /\ UNCHANGED <<policyVars, errorVars, serverVars>>

\* ctx.Providers.OpenIDConnect.Fosite.WriteRevocationResponse(rw, err)
WriteRevocationResponse ==
    /\ rev.pc = "write"
    /\ rev' = [rev EXCEPT !.written = Append(@, rev.err), !.pc = "done"]
    /\ UNCHANGED <<policyVars, errorVars, serverVars>>

\* OAuthRevocationPOST returns; the response is sent and the request context
\* released.
ReturnRevocation ==
    /\ rev.pc = "done"
    /\ rev' = NoRevocation
    /\ ctx' = Idle
    /\ response' = NoResponse
    /\ UNCHANGED <<config, policyVars, errorVars>>

\* One statement of a running OAuthRevocationPOST.
OAuthRevocationPOST ==
    \/ \E e \in RevocationErrors : NewRevocationRequest(e)
    \/ LogRevocationError
    \/ WriteRevocationResponse

(***************************************************************************)
(* Specifications                                                          *)
(***************************************************************************)

NoPolicy ==
    [Standard |-> [Enabled |-> FALSE, MinLength |-> 0, MaxLength |-> 0,
                   RequireUppercase |-> FALSE, RequireLowercase |-> FALSE,
                   RequireNumber |-> FALSE, RequireSpecial |-> FALSE],
     ZXCVBN |-> [Enabled |-> FALSE]]

NewValidator == [errors |-> <<>>, warnings |-> <<>>]

DefaultConfiguration ==
    [TOTP |-> [Disable |-> FALSE],
     Webauthn |-> [Disable |-> FALSE],
     DuoAPI |-> "nil",
     AuthenticationBackend |->
        [DisableResetPassword |-> FALSE, PasswordReset |-> [CustomURL |-> ""]],
     Server |-> [EnablePprof |-> FALSE, EnableExpvars |-> FALSE, Path |-> <<>>],
     OpenIDConnect |-> "nil"]

PolicyIdle ==
    /\ have = NoPolicy
    /\ pconfig = NoPolicy
    /\ validator = NewValidator
    /\ validated = FALSE

ErrorIdle ==
    /\ ectx = NoErrorContext
    /\ err = NoError
    /\ eresp = NoErrorResponse
    /\ logged = NoLog

ServerIdle ==
    /\ config = DefaultConfiguration
    /\ ctx = Idle
    /\ response = NoResponse

RevocationIdle == rev = NoRevocation

\* The server after getHandler(config, providers), for every configuration.
Init ==
    /\ config \in Configurations
    /\ ctx = Idle
    /\ response = NoResponse
    /\ PolicyIdle
    /\ ErrorIdle
    /\ RevocationIdle

Next ==
    \/ \E m \in Methods, p \in RequestPaths, l \in Levels : Accept(m, p, l)
    \/ Handler
    \/ Release

Spec == Init /\ [][Next]_vars

\* The error handler installed on the server.
InitError == ServerIdle /\ PolicyIdle /\ ErrorIdle /\ RevocationIdle

NextError ==
    \/ \E ip \in RemoteIPs, xff \in XForwardedFor, e \in Errors : ReadError(ip, xff, e)
    \/ \E xff \in XForwardedFor : ReadErrorAgain(xff)
    \/ handlerError
    \/ CloseConnection

SpecError == InitError /\ [][NextError]_vars

\* ValidatePasswordPolicy on every password policy configuration and a new
\* validator.
InitPolicy ==
    /\ have \in PasswordPolicyConfigurations
    /\ pconfig = have
    /\ validator = NewValidator
    /\ validated = FALSE
    /\ ServerIdle
    /\ ErrorIdle
    /\ RevocationIdle

NextPolicy == ValidatePasswordPolicy

SpecPolicy == InitPolicy /\ [][NextPolicy]_vars

\* POST requests on the revocation endpoints of a server with OpenID Connect
\* configured, each served by OAuthRevocationPOST statement by statement.
InitRevocation ==
    /\ config \in {c \in Configurations : c.OpenIDConnect # "nil"}
    /\ ctx = Idle
    /\ response = NoResponse
    /\ RevocationIdle
    /\ PolicyIdle
    /\ ErrorIdle

NextRevocation ==
    \/ \E p \in RevocationRequestPaths, l \in Levels : Accept("POST", p, l)
    \/ Handler
    \/ OAuthRevocationPOST
    \/ ReturnRevocation

SpecRevocation == InitRevocation /\ [][NextRevocation]_vars

(***************************************************************************)
(* Properties of getHandler                                                *)
(***************************************************************************)

Range(f) == {f[i] : i \in DOMAIN f}

\* The path the router sees for the request being served.
RoutedPath == StripPath(r.StripPath, ctx.path)

\* The routes of the second-factor ceremonies: /api/secondfactor/totp*,
\* /api/secondfactor/webauthn/* and /api/secondfactor/duo*.
IsSecondFactorPath(path) ==
    /\ Len(path) >= 3
    /\ path[1] = "api"
    /\ path[2] = "secondfactor"
    /\ path[3] \in {"totp", "webauthn", "duo", "duo_devices", "duo_device"}

TOTPHandlers ==
    {"UserTOTPInfoGET", "TOTPIdentityStart", "TOTPIdentityFinish",
     "TimeBasedOneTimePasswordPOST"}
WebauthnHandlers ==
    {"WebauthnIdentityStart", "WebauthnIdentityFinish", "WebauthnAttestationPOST",
     "WebauthnAssertionGET", "WebauthnAssertionPOST"}
DuoHandlers == {"DuoDevicesGET", "DuoPOST", "DuoDevicePOST"}
CeremonyHandlers ==
    (TOTPHandlers \ {"UserTOTPInfoGET"}) \cup WebauthnHandlers \cup DuoHandlers

SecondFactorMethods == {"totp", "webauthn", "duo"}

MethodDisabled(m) ==
    CASE m = "totp" -> config.TOTP.Disable
      [] m = "webauthn" -> config.Webauthn.Disable
      [] m = "duo" -> config.DuoAPI = "nil"

MethodHandlers(m) ==
    CASE m = "totp" -> TOTPHandlers
      [] m = "webauthn" -> WebauthnHandlers
      [] m = "duo" -> DuoHandlers

\* The paths of a method's endpoints.
MethodPaths(m) ==
    CASE m = "totp" ->
            {<<"api", "user", "info", "totp">>,
             <<"api", "secondfactor", "totp", "identity", "start">>,
             <<"api", "secondfactor", "totp", "identity", "finish">>,
             <<"api", "secondfactor", "totp">>}
      [] m = "webauthn" ->
            {<<"api", "secondfactor", "webauthn", "identity", "start">>,
             <<"api", "secondfactor", "webauthn", "identity", "finish">>,
             <<"api", "secondfactor", "webauthn", "attestation">>,
             <<"api", "secondfactor", "webauthn", "assertion">>}
      [] m = "duo" ->
            {<<"api", "secondfactor", "duo_devices">>,
             <<"api", "secondfactor", "duo">>,
             <<"api", "secondfactor", "duo_device">>}

\* The requests that start a ceremony of a method.
IsStartRequest(m, method, path) ==
    CASE m = "totp" ->
            method = "POST" /\ path = <<"api", "secondfactor", "totp", "identity", "start">>
      [] m = "webauthn" ->
            \/ method = "POST"
                /\ path = <<"api", "secondfactor", "webauthn", "identity", "start">>
            \/ method = "GET" /\ path = <<"api", "secondfactor", "webauthn", "assertion">>
      [] m = "duo" ->
            method = "POST" /\ path = <<"api", "secondfactor", "duo">>

\* C1: in every configuration each second-factor ceremony route registered by
\* getHandler is wrapped in Require1FA, and a second-factor ceremony handler is
\* only ever invoked for a request whose session level is at least OneFactor.
C1_SecondFactorBehindRequire1FA ==
    /\ \A rt \in r.routes :
          (IsSecondFactorPath(rt.path) \/ rt.handler.name \in CeremonyHandlers)
              => "Require1FA" \in Range(rt.mw)
    /\ (ctx.state = "served" /\ response.invoked.name \in CeremonyHandlers)
          => ctx.level >= OneFactor

\* C1 witness: a ceremony handler runs for a session that holds a first factor.
C1_Witness ==
    /\ ctx.state = "served"
    /\ response.invoked.name = "WebauthnAssertionGET"
    /\ ctx.level = OneFactor

\* C2: in every configuration the only route to the first-factor handler is
\* POST /api/firstfactor, built with the delay function returned by
\* TimingAttackDelay, and the handler is only ever invoked through it.
C2_FirstFactorTimingSafe ==
    /\ \E rt \in r.routes : rt.handler.name = "FirstFactorPOST"
    /\ \A rt \in r.routes :
          rt.handler.name = "FirstFactorPOST"
              => /\ rt.method = "POST"
                 /\ rt.path = <<"api", "firstfactor">>
                 /\ rt.handler.arg = delayFunc
    /\ r.NotFound.handler.name # "FirstFactorPOST"
    /\ (ctx.state = "served" /\ response.invoked.name = "FirstFactorPOST")
          => /\ ctx.method = "POST"
             /\ RoutedPath = <<"api", "firstfactor">>
             /\ response.invoked.arg = delayFunc

\* C2 witness: the first-factor handler runs, behind a stripped Server.Path.
C2_Witness ==
    /\ ctx.state = "served"
    /\ response.invoked.name = "FirstFactorPOST"
    /\ ctx.path = <<"authelia", "api", "firstfactor">>

C9_DisabledMethodNeverDispatched ==
    ctx.state = "served" =>
        \A m \in SecondFactorMethods :
            /\ response.invoked.name \in MethodHandlers(m) => ~MethodDisabled(m)
            /\ (MethodDisabled(m) /\ RoutedPath \in MethodPaths(m))
                  => /\ response.via \in {"NotFound", "MethodNotAllowed"}
                     /\ response.invoked.name \notin MethodHandlers(m)

\* C9 witness: a TOTP path requested with TOTP disabled ends in the NotFound handler.
C9_Witness ==
    /\ ctx.state = "served"
    /\ config.TOTP.Disable
    /\ ctx.method = "GET"
    /\ ctx.level = TwoFactor
    /\ RoutedPath = <<"api", "user", "info", "totp">>
    /\ response.via = "NotFound"

(***************************************************************************)
(* Properties of handlerError                                              *)
(***************************************************************************)

\* C4: two requests from the same connection peer that differ only in the
\* client-supplied entries of X-Forwarded-For resolve to the same client
\* address.
C4_ClientAddressIgnoresUntrustedEntries ==
    \A i, j \in DOMAIN logged :
        (logged[i].remote = logged[j].remote
            /\ SameTrustedEntries(logged[i].xff, logged[j].xff))
            => logged[i].client = logged[j].client

\* C10: the error handler writes exactly one response for every error: 431 iff
\* the error is an ErrSmallBuffer, 408 iff it is a net.OpError whose Timeout()
\* is true, and 400 for every other error.
C10_ErrorStatus ==
    ectx.state = "responded" =>
        /\ eresp.writes = 1
        /\ eresp.status \in {StatusRequestHeaderFieldsTooLarge, StatusRequestTimeout,
                             StatusBadRequest}
        /\ eresp.status = StatusRequestHeaderFieldsTooLarge
              <=> err.type = "*fasthttp.ErrSmallBuffer"
        /\ eresp.status = StatusRequestTimeout
              <=> (err.type = "*net.OpError" /\ err.timeout)
        /\ eresp.status = StatusBadRequest
              <=> ~(err.type = "*fasthttp.ErrSmallBuffer")
                    /\ ~(err.type = "*net.OpError" /\ err.timeout)
        /\ logged # <<>>
        /\ logged[Len(logged)].code = eresp.status

\* C10 witness: a net.OpError that is no timeout is answered 400.
C10_Witness ==
    /\ ectx.state = "responded"
    /\ err.type = "*net.OpError"
    /\ ~err.timeout
    /\ eresp.status = StatusBadRequest

(***************************************************************************)
(* Properties of ValidatePasswordPolicy                                    *)
(***************************************************************************)

IsMultipleDefined(e) == e[1] = errPasswordPolicyMultipleDefined
IsMinLengthError(e) == e[1] = errFmtPasswordPolicyMinLengthNotGreaterThanZero

Errs == validator.errors
MinLengthErrors == {i \in DOMAIN Errs : IsMinLengthError(Errs[i])}
MultipleErrors == {i \in DOMAIN Errs : IsMultipleDefined(Errs[i])}

\* C5: the "only a single password policy mechanism" error is pushed if and
\* only if both Standard.Enabled and ZXCVBN.Enabled are true, and when pushed
\* it precedes any min_length error.
C5_MultipleDefinedIffBoth ==
    validated =>
        /\ (MultipleErrors # {}) <=> (have.Standard.Enabled /\ have.ZXCVBN.Enabled)
        /\ Cardinality(MultipleErrors) <= 1
        /\ \A i \in MultipleErrors, j \in MinLengthErrors : i < j

\* C5 witness: both mechanisms enabled and a negative MinLength: two errors, the single-mechanism one first.
C5_Witness ==
    /\ validated
    /\ have.Standard.Enabled /\ have.ZXCVBN.Enabled
    /\ have.Standard.MinLength < 0
    /\ Len(Errs) = 2
    /\ IsMultipleDefined(Errs[1])

\* C6 as stated: with Standard.Enabled, a MinLength of 0 becomes the default
\* (8) and a MinLength > 0 is kept, in both cases without pushing an error.
C6_DefaultMinLengthNoError ==
    (validated /\ have.Standard.Enabled /\ have.Standard.MinLength >= 0)
        => /\ pconfig.Standard.MinLength =
                IF have.Standard.MinLength = 0 THEN 8 ELSE have.Standard.MinLength
           /\ Errs = <<>>

\* C6 as the code has it: with Standard.Enabled, a MinLength of 0 becomes the
\* default (8) and a MinLength > 0 is kept, in both cases without pushing a
\* min_length error; the only error pushed is the single-mechanism error,
\* when ZXCVBN is enabled too.
C6_DefaultMinLengthNoMinLengthError ==
    (validated /\ have.Standard.Enabled /\ have.Standard.MinLength >= 0)
        => /\ pconfig.Standard.MinLength =
                IF have.Standard.MinLength = 0 THEN 8 ELSE have.Standard.MinLength
           /\ MinLengthErrors = {}
           /\ Errs = IF have.ZXCVBN.Enabled
                     THEN <<Errorf(errPasswordPolicyMultipleDefined, <<>>)>>
                     ELSE <<>>

\* C6 witness: both mechanisms enabled and MinLength 0: the default is set and one error is held.
C6_Witness ==
    /\ validated
    /\ have.Standard.Enabled /\ have.ZXCVBN.Enabled
    /\ have.Standard.MinLength = 0
    /\ pconfig.Standard.MinLength = 8
    /\ Len(Errs) = 1

\* C7: with Standard.Enabled and a negative MinLength exactly one min_length
\* error is pushed, it names the configured value, and MinLength is left as
\* configured.
C7_NegativeMinLength ==
    (validated /\ have.Standard.Enabled /\ have.Standard.MinLength < 0)
        => /\ Cardinality(MinLengthErrors) = 1
           /\ \A i \in MinLengthErrors :
                 Errs[i] = <<errFmtPasswordPolicyMinLengthNotGreaterThanZero,
                             have.Standard.MinLength>>
           /\ pconfig.Standard.MinLength = have.Standard.MinLength

\* C7 witness: Standard alone with MinLength -1: one error, MinLength still -1.
C7_Witness ==
    /\ validated
    /\ have.Standard.Enabled /\ ~have.ZXCVBN.Enabled
    /\ have.Standard.MinLength = 0 - 1
    /\ Len(Errs) = 1
    /\ pconfig.Standard.MinLength = 0 - 1

\* C8: with Standard.Enabled false every field of the configuration is left
\* as it was and no min_length error is pushed; no input gets a warning.
C8_DisabledStandardUnchanged ==
    validated =>
        /\ validator.warnings = <<>>
        /\ ~have.Standard.Enabled => (pconfig = have /\ MinLengthErrors = {})

\* C8 witness: Standard disabled with zero lengths: nothing is changed.
C8_Witness ==
    /\ validated
    /\ ~have.Standard.Enabled /\ have.ZXCVBN.Enabled
    /\ have.Standard.MinLength = 0
    /\ have.Standard.MaxLength = 0
    /\ have.Standard.RequireNumber
    /\ pconfig = have

(***************************************************************************)
(* Properties of OAuthRevocationPOST                                       *)
(***************************************************************************)

\* C11: OAuthRevocationPOST writes the revocation response exactly once for
\* every request, after the revocation request has been validated, and
\* passes it what the validation returned (nil on success, the validation
\* error on failure). At no point has the response been written twice; it
\* has not been written before the validation and the log line of a failure;
\* once written, its argument is the value NewRevocationRequest returned;
\* when the handler returns the response has been written once and a failure
\* has been logged once, a success not at all; and a call that has not
\* reached its return can always take its next statement.
C11_RevocationResponseWrittenOnce ==
    /\ Len(rev.written) <= 1
    /\ rev.pc \in {"entry", "log", "write"} => rev.written = <<>>
    /\ rev.pc \in {"log", "write", "done"} => rev.validated
    /\ rev.written # <<>> => rev.validated /\ rev.written = <<rev.returned>>
    /\ rev.pc = "done" =>
         /\ Len(rev.written) = 1
         /\ Len(rev.logs) = (IF rev.returned = Nil THEN 0 ELSE 1)
    /\ RevocationDispatched /\ rev.pc # "done" => ENABLED OAuthRevocationPOST

\* C11 witness: a revocation request whose validation failed with an error
\* that is no RFC 6749 error has been logged and answered once, with that
\* error.
C11_Witness ==
    /\ RevocationDispatched
    /\ rev.pc = "done"
    /\ rev.returned # Nil
    /\ ~rev.returned.rfc
    /\ Len(rev.logs) = 1
    /\ rev.written = <<rev.returned>>

====
